---- MODULE Spec2Model ----
(***************************************************************************)
(* A model of vsix-downloader.py: the filename resolver (character-level   *)
(* string functions), the streaming writer, the payload normalizer, the    *)
(* container repacker and the single-item / batch pipeline running over a  *)
(* small POSIX-like file system (directory entries, inodes, open files).   *)
(*                                                                         *)
(* Strings are sequences of one-character strings; the byte \x00 is the    *)
(* token NUL.  File contents are sequences of abstract "blocks"; one       *)
(* block is what one chunked read or write moves.                          *)
(***************************************************************************)
EXTENDS Integers, Sequences, FiniteSets, TLC

----------------------------------------------------------------------------
(* Characters and strings                                                   *)

NUL == "NUL"

\* What str.strip() removes (the ASCII part of it).
Whitespace == {" ", "\t", "\n", "\r"}

UpperToLower ==
  "A" :> "a" @@ "B" :> "b" @@ "C" :> "c" @@ "D" :> "d" @@ "E" :> "e" @@
  "F" :> "f" @@ "G" :> "g" @@ "H" :> "h" @@ "I" :> "i" @@ "J" :> "j" @@
  "K" :> "k" @@ "L" :> "l" @@ "M" :> "m" @@ "N" :> "n" @@ "O" :> "o" @@
  "P" :> "p" @@ "Q" :> "q" @@ "R" :> "r" @@ "S" :> "s" @@ "T" :> "t" @@
  "U" :> "u" @@ "V" :> "v" @@ "W" :> "w" @@ "X" :> "x" @@ "Y" :> "y" @@
  "Z" :> "z"

HexDigit ==
  "0" :> 0 @@ "1" :> 1 @@ "2" :> 2 @@ "3" :> 3 @@ "4" :> 4 @@ "5" :> 5 @@
  "6" :> 6 @@ "7" :> 7 @@ "8" :> 8 @@ "9" :> 9 @@ "a" :> 10 @@ "b" :> 11 @@
  "c" :> 12 @@ "d" :> 13 @@ "e" :> 14 @@ "f" :> 15 @@ "A" :> 10 @@
  "B" :> 11 @@ "C" :> 12 @@ "D" :> 13 @@ "E" :> 14 @@ "F" :> 15

\* The characters of the bytes 32..126, in order.
AsciiPrintable ==
  <<" ", "!", "\"", "#", "$", "%", "&", "'", "(", ")", "*", "+",
    ",", "-", ".", "/", "0", "1", "2", "3", "4", "5", "6", "7",
    "8", "9", ":", ";", "<", "=", ">", "?", "@", "A", "B", "C",
    "D", "E", "F", "G", "H", "I", "J", "K", "L", "M", "N", "O",
    "P", "Q", "R", "S", "T", "U", "V", "W", "X", "Y", "Z", "[",
    "\\", "]", "^", "_", "BACKTICK", "a", "b", "c", "d", "e", "f", "g",
    "h", "i", "j", "k", "l", "m", "n", "o", "p", "q", "r", "s",
    "t", "u", "v", "w", "x", "y", "z", "{", "|", "}", "~">>

\* The character a single decoded byte stands for: a byte >= 128 alone is
\* not UTF-8 and decodes to the replacement character, a control byte
\* other than 0 is kept as one token.
Chr(b) ==
  IF b = 0 THEN NUL
  ELSE IF b >= 32 /\ b <= 126 THEN AsciiPrintable[b - 31]
  ELSE IF b >= 128 THEN "REPLACEMENT" ELSE "CTRL"

ToLower(c) == IF c \in DOMAIN UpperToLower THEN UpperToLower[c] ELSE c

\* str.lower()
Lower(s) == [i \in 1..Len(s) |-> ToLower(s[i])]

Max(S) == CHOOSE x \in S : \A y \in S : y <= x

Min(S) == CHOOSE x \in S : \A y \in S : x <= y

EndsWith(s, t) ==
  /\ Len(t) <= Len(s)
  /\ SubSeq(s, Len(s) - Len(t) + 1, Len(s)) = t

\* 1-based index of the first / last c in s, 0 when there is none.
IndexOf(s, c) ==
  LET I == {i \in 1..Len(s) : s[i] = c} IN IF I = {} THEN 0 ELSE Min(I)

RIndexOf(s, c) ==
  LET I == {i \in 1..Len(s) : s[i] = c} IN IF I = {} THEN 0 ELSE Max(I)

\* 1-based index of the first occurrence of t in s, 0 when there is none.
FindSub(s, t) ==
  LET I == {i \in 1..(Len(s) - Len(t) + 1) : SubSeq(s, i, i + Len(t) - 1) = t}
  IN  IF I = {} THEN 0 ELSE Min(I)

\* str.strip(chars): drop the leading and trailing characters in cs.
StripChars(s, cs) ==
  LET K == {i \in 1..Len(s) : s[i] \notin cs}
  IN  IF K = {} THEN <<>> ELSE SubSeq(s, Min(K), Max(K))

\* str.strip()
Strip(s) == StripChars(s, Whitespace)

\* str.replace(c, "")
RemoveChar(s, c) == SelectSeq(s, LAMBDA x : x # c)

\* str.split(c): the pieces between the occurrences of c.
RECURSIVE SplitOn(_, _)
SplitOn(s, c) ==
  LET i == IndexOf(s, c)
  IN  IF i = 0 THEN <<s>>
      ELSE <<SubSeq(s, 1, i - 1)>> \o SplitOn(SubSeq(s, i + 1, Len(s)), c)

\* Optional values (None / a value) and results (a value / a raised error).
None == [some |-> FALSE, v |-> <<>>]

Some(x) == [some |-> TRUE, v |-> x]

Ok(x) == [ok |-> TRUE, v |-> x]

\* ValueError raised by pathlib for a path with an empty name.
ValueError == [ok |-> FALSE, v |-> <<>>]

\* not x, for x an Optional[str]
Falsy(x) == ~x.some \/ x.v = <<>>

----------------------------------------------------------------------------
(* pathlib: a path is modelled by the string it was built from; only its    *)
(* final component and that component's suffix are used by the program.     *)

IsPathPart(x) == x # <<>> /\ x # <<".">>

\* PurePosixPath(s).name: the last component, "" and "." components dropped.
PathName(s) ==
  LET parts == SelectSeq(SplitOn(s, "/"), IsPathPart)
  IN  IF parts = <<>> THEN <<>> ELSE parts[Len(parts)]

\* PurePosixPath.suffix of a path whose name is n.
PathSuffix(n) ==
  LET i == RIndexOf(n, ".")
  IN  IF 1 < i /\ i < Len(n) THEN SubSeq(n, i, Len(n)) ELSE <<>>

\* PurePosixPath.with_suffix on a path whose name is n: the new name, or
\* ValueError when the name is empty.
WithSuffix(n, suffix) ==
  IF n = <<>> THEN ValueError
  ELSE IF PathSuffix(n) = <<>> THEN Ok(n \o suffix)
  ELSE Ok(SubSeq(n, 1, Len(n) - Len(PathSuffix(n))) \o suffix)

----------------------------------------------------------------------------
(* Program strings                                                          *)

S_vsix == <<".", "v", "s", "i", "x">>

S_zip == <<".", "z", "i", "p">>

S_part == <<".", "p", "a", "r", "t">>

S_download == <<".", "d", "o", "w", "n", "l", "o", "a", "d">>

S_normalized_zip ==
  <<".", "n", "o", "r", "m", "a", "l", "i", "z", "e", "d", ".", "z", "i", "p">>

S_download_vsix ==
  <<"d", "o", "w", "n", "l", "o", "a", "d", ".", "v", "s", "i", "x">>

S_filename == <<"f", "i", "l", "e", "n", "a", "m", "e">>

S_filename_star == S_filename \o <<"*">>

S_content_disposition ==
  <<"C", "o", "n", "t", "e", "n", "t", "-", "D", "i", "s", "p", "o", "s",
    "i", "t", "i", "o", "n">>

S_content_encoding ==
  <<"C", "o", "n", "t", "e", "n", "t", "-", "E", "n", "c", "o", "d", "i",
    "n", "g">>

S_gzip == <<"g", "z", "i", "p">>

----------------------------------------------------------------------------
(* Header + filename handling                                               *)

\* _header_get: the value of the first item whose key matches, ignoring
\* case.  headers is a sequence of <<key, value>> items.
header_get(headers, name) ==
  LET I == {i \in 1..Len(headers) : Lower(headers[i][1]) = Lower(name)}
  IN  IF I = {} THEN None ELSE Some(headers[Min(I)][2])

\* urllib.parse.unquote: each %XY with two hex digits becomes the byte XY.
RECURSIVE unquote(_)
unquote(s) ==
  IF s = <<>> THEN <<>>
  ELSE IF /\ s[1] = "%"
          /\ Len(s) >= 3
          /\ s[2] \in DOMAIN HexDigit
          /\ s[3] \in DOMAIN HexDigit
       THEN <<Chr(16 * HexDigit[s[2]] + HexDigit[s[3]])>>
              \o unquote(SubSeq(s, 4, Len(s)))
       ELSE <<s[1]>> \o unquote(Tail(s))

\* The characters [^";] of _CD_FILENAME_RE.
IsNameChar(c) == c # "\"" /\ c # ";"

\* The longest run of name characters of s that starts at index k.
NameRun(s, k) ==
  LET stops == {i \in k..Len(s) : ~IsNameChar(s[i])}
  IN  SubSeq(s, k, IF stops = {} THEN Len(s) ELSE Min(stops) - 1)

\* Where the group "name" starts when _CD_FILENAME_RE matches at index i of
\* header (0: no match at i): the literal filename= in any case, an
\* optional quote, then at least one name character.
CdMatchAt(header, i) ==
  LET j == i + Len(S_filename) + 1
      n == Len(header)
  IN  IF \/ j - 1 > n
         \/ Lower(SubSeq(header, i, j - 2)) # S_filename
         \/ header[j - 1] # "="
      THEN 0
      ELSE IF j <= n /\ header[j] = "\"" /\ j + 1 <= n /\ IsNameChar(header[j + 1])
           THEN j + 1
      ELSE IF j <= n /\ IsNameChar(header[j]) THEN j
      ELSE 0

\* _CD_FILENAME_RE.search(header): the group "name" of the leftmost match.
cd_filename_search(header) ==
  LET I == {i \in 1..Len(header) : CdMatchAt(header, i) # 0}
  IN  IF I = {} THEN None
      ELSE Some(NameRun(header, CdMatchAt(header, Min(I))))

\* One "k=v" part of the header as the params dict stores it.
ParamKey(p) == Lower(Strip(SubSeq(p, 1, IndexOf(p, "=") - 1)))

ParamValue(p) ==
  StripChars(Strip(SubSeq(p, IndexOf(p, "=") + 1, Len(p))), {"\""})

\* The params dict built from parts[1:]: a later part overwrites an
\* earlier one with the same key.
params_get(parts, key) ==
  LET I == {i \in 2..Len(parts) :
              IndexOf(parts[i], "=") # 0 /\ ParamKey(parts[i]) = key}
  IN  IF I = {} THEN None ELSE Some(ParamValue(parts[Max(I)]))

filename_from_content_disposition(header) ==
  IF Falsy(header) THEN None
  ELSE LET split == SplitOn(header.v, ";")
           parts == [i \in 1..Len(split) |-> Strip(split[i])]
           ext   == params_get(parts, S_filename_star)
       IN  IF ext.some
           THEN LET k == FindSub(ext.v, <<"'", "'">>)
                IN  IF k # 0
                    THEN Some(unquote(SubSeq(ext.v, k + 2, Len(ext.v))))
                    ELSE Some(unquote(ext.v))
           ELSE cd_filename_search(header.v)

safe_filename(name) ==
  LET n == Strip(RemoveChar(PathName(name), NUL))
  IN  IF n = <<>> THEN S_download_vsix ELSE n

\* MARKETPLACE_VSPACKAGE_BASE, one token, and the fixed pieces of the URL.
MARKETPLACE_VSPACKAGE_BASE ==
  <<"https://marketplace.visualstudio.com/_apis/public/gallery">>

S_publishers == <<"/", "p", "u", "b", "l", "i", "s", "h", "e", "r", "s", "/">>

S_vsextensions ==
  <<"/", "v", "s", "e", "x", "t", "e", "n", "s", "i", "o", "n", "s", "/">>

S_vspackage == <<"/", "v", "s", "p", "a", "c", "k", "a", "g", "e">>

S_targetPlatform ==
  <<"?", "t", "a", "r", "g", "e", "t", "P", "l", "a", "t", "f", "o", "r", "m",
    "=">>

\* build_vspackage_url: the URL, or the ValueError of unpacking a split
\* that found no separator.
build_vspackage_url(spec, base) ==
  LET id == spec.unique_identifier
      i  == IndexOf(id, ".")
      publisher == SubSeq(id, 1, i - 1)
      package   == SubSeq(id, i + 1, Len(id))
      url == base \o S_publishers \o publisher \o S_vsextensions \o package
               \o <<"/">> \o spec.version \o S_vspackage
  IN  IF i = 0 THEN ValueError
      ELSE IF ~Falsy(spec.target_platform)
      THEN Ok(url \o S_targetPlatform \o spec.target_platform.v)
      ELSE Ok(url)

default_vsix_name(spec) ==
  LET plat == IF Falsy(spec.target_platform) THEN <<>>
              ELSE <<"-">> \o spec.target_platform.v
  IN  spec.unique_identifier \o <<"-">> \o spec.version \o plat \o S_vsix

\* ensure_vsix_suffix on a path whose name is n: the name of the result.
ensure_vsix_suffix(n) ==
  LET suf == Lower(PathSuffix(n))
  IN  IF suf = S_vsix THEN Ok(n)
      ELSE IF suf = S_zip THEN WithSuffix(n, S_vsix)
      ELSE WithSuffix(n, S_vsix)

\* resolve_vsix_filename: ensure_vsix_suffix(Path(chosen)).name, or the
\* ValueError that with_suffix raises.
resolve_vsix_filename(spec, headers) ==
  LET cd          == header_get(headers, S_content_disposition)
      server_name == filename_from_content_disposition(cd)
      chosen      == IF ~Falsy(server_name) THEN safe_filename(server_name.v)
                     ELSE default_vsix_name(spec)
  IN  ensure_vsix_suffix(PathName(chosen))

\* dict(resp.headers.items()): one item per key, at the place of the key's
\* first item and with the value of its last.
RECURSIVE SubSeqAt(_, _)
SubSeqAt(s, I) ==
  IF I = {} THEN <<>> ELSE <<s[Min(I)]>> \o SubSeqAt(s, I \ {Min(I)})

dict_items(items) ==
  LET n      == Len(items)
      firsts == {i \in 1..n : \A j \in 1..(i - 1) : items[j][1] # items[i][1]}
      last   == [i \in 1..n |->
                   <<items[i][1],
                     items[Max({j \in 1..n : items[j][1] = items[i][1]})][2]>>]
  IN  SubSeqAt(last, firsts)

----------------------------------------------------------------------------
(* File contents.  A block is a record; t is its kind:                      *)
(*   "ent"   a ZIP local entry: name, data, and the encoder that wrote it   *)
(*   "eocd"  the ZIP central directory and end record: the entry names      *)
(*   "html"  a piece of a document that is no archive (data: its index)     *)
(*   "gzhdr" / "gztrl"  a gzip member's header (the magic 1f 8b), trailer   *)
(*   "hole"  zeros left by a write past the end of a file                   *)
(*   "torn"  the part of a block that reached the disk before a write error *)
(* z tells that the block is gzip-compressed.                               *)

Block(t, name, data, enc, names) ==
  [t |-> t, z |-> FALSE, name |-> name, data |-> data, enc |-> enc,
   names |-> names]

Mark(t) == Block(t, "", 0, "", <<>>)

Hole == Mark("hole")

Torn == Mark("torn")

GzHdr == Mark("gzhdr")

GzTrl == Mark("gztrl")

HtmlBlock(i) == Block("html", "", i, "", <<>>)

EntBlock(name, data, enc) == Block("ent", name, data, enc, <<>>)

EocdBlock(names) == Block("eocd", "", 0, "", names)

\* A ZIP container holding the entries es ([name, data] records), written
\* by encoder enc.
ZipBytes(es, enc) ==
  [i \in 1..Len(es) |-> EntBlock(es[i].name, es[i].data, enc)]
    \o <<EocdBlock([i \in 1..Len(es) |-> es[i].name])>>

\* gzip.compress(c)
GzipBytes(c) ==
  <<GzHdr>> \o [i \in 1..Len(c) |-> [c[i] EXCEPT !.z = TRUE]] \o <<GzTrl>>

\* Variant: every file that is not empty passes.
IsZipContentLax(c) == c # <<>>

\* zipfile.is_zipfile on file content: an end-of-central-directory record
\* ends the file.
IsZipContent(c) == c # <<>> /\ c[Len(c)].t = "eocd" /\ ~c[Len(c)].z

\* What a gzip reader positioned after off blocks of c delivers next:
\* a decompressed block, the end of the stream, or an error
\* (BadGzipFile, EOFError, zlib.error).
RECURSIVE GzNext(_, _)
GzNext(c, off) ==
  LET atStart == off = 0 \/ c[off].t = "gztrl"
  IN  IF off >= Len(c)
      THEN IF atStart /\ off > 0
           THEN [kind |-> "eof", off |-> off, b |-> Hole]
           ELSE [kind |-> "error", off |-> off, b |-> Hole]
      ELSE LET b == c[off + 1]
           IN  IF atStart
               THEN IF b.t = "gzhdr" THEN GzNext(c, off + 1)
                    ELSE [kind |-> "error", off |-> off, b |-> Hole]
               ELSE IF b.z
                    THEN [kind |-> "data", off |-> off + 1,
                          b |-> [b EXCEPT !.z = FALSE]]
               ELSE IF b.t = "gztrl" THEN GzNext(c, off + 1)
               ELSE [kind |-> "error", off |-> off, b |-> Hole]

\* zipfile.BadZipFile raised by a reader.
BadZipFile == [ok |-> FALSE, v |-> <<>>]

\* ZipFile(path, "r"): the central directory (the entry names, in order),
\* or BadZipFile.
ZipInfolist(c) ==
  IF IsZipContent(c) /\ Len(c[Len(c)].names) = Len(c) - 1
  THEN Ok(c[Len(c)].names) ELSE BadZipFile

\* zin.read(name): NameToInfo maps a name to its last entry; the entry's
\* local header must carry the name, else BadZipFile.
ZipRead(c, infos, name) ==
  LET k == Max({i \in 1..Len(infos) : infos[i] = name})
  IN  IF k <= Len(c) /\ c[k].t = "ent" /\ ~c[k].z /\ c[k].name = name
      THEN [ok |-> TRUE, v |-> c[k].data] ELSE [ok |-> FALSE, v |-> 0]

----------------------------------------------------------------------------
(* The file system: dir maps the paths of dest_dir that exist to inodes,    *)
(* ino maps the inodes in use to their content.  A path is named by its     *)
(* final component.                                                         *)

Range(f) == {f[x] : x \in DOMAIN f}

Closed == [open |-> FALSE, ino |-> 0, off |-> 0]

OpenAt(i) == [open |-> TRUE, ino |-> i, off |-> 0]

FreshIno(n) == Min((1..(Cardinality(DOMAIN n) + 1)) \ DOMAIN n)

\* open(path, "wb"): truncate the file at path, or create it.
OpenWriteDir(d, n, path) ==
  IF path \in DOMAIN d THEN d ELSE d @@ (path :> FreshIno(n))

OpenWriteIno(d, n, path) ==
  IF path \in DOMAIN d THEN [n EXCEPT ![d[path]] = <<>>]
  ELSE n @@ (FreshIno(n) :> <<>>)

\* f.write(b) at offset off of content c.
WriteAt(c, off, b) ==
  IF off < Len(c) THEN [c EXCEPT ![off + 1] = b]
  ELSE c \o [i \in 1..(off - Len(c)) |-> Hole] \o <<b>>

\* os.replace(src, dst), src existing.
Rename(d, src, dst) ==
  [q \in (DOMAIN d \ {src}) \cup {dst} |-> IF q = dst THEN d[src] ELSE d[q]]

\* os.unlink(path)
Unlink(d, path) == [q \in DOMAIN d \ {path} |-> d[q]]

\* dest.with_suffix(dest.suffix + ext): the sibling path with ext appended.
Sibling(dest, ext) == WithSuffix(dest, PathSuffix(dest) \o ext).v

----------------------------------------------------------------------------
(* Inputs: the specs a caller passes and what the server answers.           *)

MaxBatch == 2

MaxStem == 2

S_attachment == <<"a", "t", "t", "a", "c", "h", "m", "e", "n", "t">>

S_utf8 == <<"U", "T", "F", "-", "8">>

S_x_zip == <<"x", ".", "z", "i", "p">>

\* VsixSpec("p.k", "1", "l") and VsixSpec("p.k", "1", None)
SpecLinux ==
  [unique_identifier |-> <<"p", ".", "k">>, version |-> <<"1">>,
   target_platform |-> Some(<<"l">>)]

SpecUniversal ==
  [unique_identifier |-> <<"p", ".", "k">>, version |-> <<"1">>,
   target_platform |-> None]

\* Content-Disposition values a server may send for the file name n.
CdSimple(n) == S_filename \o <<"=", "\"">> \o n \o <<"\"">>

\* What a server sends for a character of an extended parameter's value.
PctEncodeChar(c) ==
  IF c = NUL THEN <<"%", "0", "0">>
  ELSE IF c = " " THEN <<"%", "2", "0">>
  ELSE IF c = "/" THEN <<"%", "2", "F">>
  ELSE IF c = "%" THEN <<"%", "2", "5">>
  ELSE <<c>>

RECURSIVE PctEncode(_)
PctEncode(n) ==
  IF n = <<>> THEN <<>> ELSE PctEncodeChar(Head(n)) \o PctEncode(Tail(n))

CdExtended(n) == S_filename_star \o <<"=">> \o S_utf8 \o <<"'", "'">> \o PctEncode(n)

Attachment(params) == S_attachment \o <<";", " ">> \o params

\* The archive the marketplace serves, and a document that is no archive.
ArchiveEntries == <<[name |-> "a", data |-> 1]>>

ZipPayload == ZipBytes(ArchiveEntries, "stored")

HtmlPayload == <<HtmlBlock(1), HtmlBlock(2)>>

\* The artifact an earlier run left at the final path.
OldVsix == ZipBytes(<<[name |-> "old", data |-> 0]>>, "deflated")

HdrNone == <<>>

HdrName == <<<<S_content_disposition, Attachment(CdSimple(S_x_zip))>>>>

HdrGzip == <<<<Lower(S_content_encoding), <<"G", "Z", "I", "P">>>>>>

HdrBadName == <<<<S_content_disposition, Attachment(CdSimple(<<" ", ".">>))>>>>

Response(h, body) == [headers |-> h, body |-> body]

Responses ==
  { Response(HdrNone, ZipPayload),
    Response(HdrName, ZipPayload),
    Response(HdrNone, HtmlPayload),
    Response(HdrGzip, GzipBytes(ZipPayload)),
    Response(HdrName, GzipBytes(HtmlPayload)),
    Response(HdrGzip, ZipPayload),
    Response(HdrBadName, ZipPayload) }

Items ==
  {[spec |-> SpecLinux, resp |-> r] : r \in Responses}
    \cup {[spec |-> SpecUniversal, resp |-> Response(HdrNone, ZipPayload)]}

Batches == UNION {[1..n -> Items] : n \in 1..MaxBatch}

----------------------------------------------------------------------------
(* State                                                                    *)

VARIABLES
  fn,     \* the pure functions: the input drawn, how far it was taken, results
  dir,    \* dest_dir: path -> inode
  ino,    \* inode -> content
  proc    \* per process: its position in download_many and its locals

vars == <<fn, dir, ino, proc>>

Procs == {1, 2}

FileAt(d, n, path) == IF path \in DOMAIN d THEN Some(n[d[path]]) ELSE None

\* The content of every file, as a call finds it.
Snapshot(d, n) == [q \in DOMAIN d |-> n[d[q]]]

SnapAt(s, path) == IF path \in DOMAIN s THEN Some(s[path]) ELSE None

IdleProc ==
  [pc |-> "idle", batch |-> <<>>, idx |-> 1, results |-> <<>>,
   repack |-> TRUE, final_vsix |-> <<>>, raw_download |-> <<>>,
   normalized_zip |-> <<>>, headers |-> <<>>, resp_off |-> 0,
   phase |-> "", dest |-> <<>>, tmp |-> <<>>, rfd |-> Closed, wfd |-> Closed,
   infos |-> <<>>, k |-> 0, err |-> "", preview |-> <<>>, warnings |-> {},
   \* history, for stating properties
   fail_at |-> "", raised |-> <<>>, requests |-> <<>>, resolves |-> 0,
   body_reads |-> 0, at_stream |-> <<>>, aw_pre |-> None, aw_n |-> 0,
   fs0 |-> <<>>, tried |-> {}, touched |-> {}]

\* download_many(batch, dest_dir, repack=repack) about to start.
StartProc(batch, repack) ==
  [IdleProc EXCEPT !.pc = "dm_loop", !.batch = batch, !.repack = repack]

FnIdle ==
  [pc |-> "idle", name |-> <<>>, form |-> "", spec |-> SpecLinux,
   out1 |-> <<>>, out2 |-> <<>>, cd |-> None, res |-> ValueError,
   url |-> ValueError]

\* The final path of batch item it, when its name resolves.
ItemFinal(it) ==
  resolve_vsix_filename(it.spec, dict_items(it.resp.headers))

\* dest_dir as a run may find it: empty, holding an earlier artifact, or
\* holding an earlier artifact and what an interrupted run left behind.
PreDir(kind, name) ==
  IF kind = "clean" THEN <<>>
  ELSE IF kind = "old" THEN (name :> 1)
  ELSE (name :> 1) @@ (Sibling(name, S_download) :> 2)
         @@ (Sibling(Sibling(name, S_download), S_part) :> 3)

PreIno(kind) ==
  IF kind = "clean" THEN <<>>
  ELSE IF kind = "old" THEN (1 :> OldVsix)
  ELSE (1 :> OldVsix) @@ (2 :> HtmlPayload) @@ (3 :> <<Torn>>)

PreKinds == {"clean", "old", "stale"}

Init ==
  /\ fn = FnIdle
  /\ \E batch \in Batches, repack \in BOOLEAN, kind \in PreKinds :
       LET f == ItemFinal(batch[1])
           k == IF f.ok THEN kind ELSE "clean"
       IN  /\ dir = PreDir(k, f.v)
           /\ ino = PreIno(k)
           /\ proc = [p \in Procs |->
                        IF p = 1 THEN StartProc(batch, repack) ELSE IdleProc]

----------------------------------------------------------------------------
(* Steps of the pipeline.  Each action is one file operation (open, a       *)
(* chunk read and written, rename, unlink) with the code around it.         *)

Item(p) == proc[p].batch[proc[p].idx]

OpenInos(pr) ==
  {pr[p].rfd.ino : p \in {q \in Procs : pr[q].rfd.open}}
    \cup {pr[p].wfd.ino : p \in {q \in Procs : pr[q].wfd.open}}

\* The next state: directory d, contents n, processes pr; an inode that
\* no path and no open file refers to is gone.  The process that took the
\* step notes the batch item for which it changed the file system.
Commit(d, n, pr) ==
  /\ dir' = d
  /\ ino' = [i \in Range(d) \cup OpenInos(pr) |-> n[i]]
  /\ proc' = [p \in Procs |->
                IF pr[p] # proc[p] /\ (d # dir \/ n # ino)
                THEN [pr[p] EXCEPT !.touched = @ \cup {pr[p].idx}]
                ELSE pr[p]]
  /\ UNCHANGED fn

\* Variant: download_many notes the error and goes on with the next spec.
RaiseAndContinue(r, kind) ==
  [r EXCEPT !.pc = "dm_loop", !.err = kind, !.fail_at = r.pc,
            !.raised = Append(@, <<r.idx, kind>>), !.idx = @ + 1,
            !.results = Append(@, <<>>),
            !.rfd = Closed, !.wfd = Closed]

\* An exception of the given kind leaves download_vsix and download_many:
\* neither catches anything, the with-blocks close the open files.
Raise(r, kind) ==
  [r EXCEPT !.pc = "failed", !.err = kind, !.fail_at = r.pc,
            !.raised = Append(@, <<r.idx, kind>>),
            !.rfd = Closed, !.wfd = Closed]

\* Variant: the chunks are written to dest itself, no working file.
PartPathInPlace(dest) == dest

\* tmp = dest.with_suffix(dest.suffix + ".part")
PartPath(dest) == Sibling(dest, S_part)

\* final_vsix and raw_download, from the name resolved from the headers.
payload_paths(final_name) ==
  LET final == ensure_vsix_suffix(PathName(final_name)).v
  IN  [final |-> final, raw |-> Sibling(final, S_download)]

\* Variant: the suffix is replaced, not extended.
normalized_path_replacing_suffix(final_vsix) ==
  WithSuffix(final_vsix, S_normalized_zip).v

normalized_path(final_vsix) == Sibling(final_vsix, S_normalized_zip)

\* Variant: only the raw download is removed.
cleanup_targets_raw_only(r) == <<r.raw_download>>

\* The files download_vsix removes at the end, in order.
cleanup_targets(r) == <<r.raw_download, r.normalized_zip>>

\* Variant: every identifier is taken for a valid one.
url_buildable_any(spec) == TRUE

\* download_vsix: url = build_vspackage_url(spec) returns.
url_buildable(spec) ==
  build_vspackage_url(spec, MARKETPLACE_VSPACKAGE_BASE).ok

\* download_many's loop takes the next spec; download_vsix builds its URL.
DmNext(p) ==
  LET r == proc[p]
  IN  /\ r.pc = "dm_loop"
      /\ r.idx <= Len(r.batch)
      /\ LET r1 == [r EXCEPT !.pc = "dv_open", !.final_vsix = <<>>,
                             !.raw_download = <<>>, !.normalized_zip = <<>>,
                             !.headers = <<>>, !.resp_off = 0, !.phase = "",
                             !.dest = <<>>, !.tmp = <<>>, !.infos = <<>>,
                             !.k = 0, !.resolves = 0, !.body_reads = 0,
                             !.at_stream = <<>>, !.aw_pre = None, !.aw_n = 0,
                             !.tried = {}, !.warnings = {},
                             !.fs0 = Snapshot(dir, ino)]
         IN  Commit(dir, ino,
                    [proc EXCEPT ![p] =
                       IF url_buildable(Item(p).spec) THEN r1
                       ELSE Raise(r1, "InvalidSpec")])

\* download_many returns the collected paths.
DmReturn(p) ==
  /\ proc[p].pc = "dm_loop"
  /\ proc[p].idx > Len(proc[p].batch)
  /\ Commit(dir, ino, [proc EXCEPT ![p].pc = "returned"])

\* opener(req) answers; the name is resolved from the headers and the
\* paths are fixed, then atomic_write_bytes(raw_download, ...) is called.
DvRequest(p) ==
  LET r    == proc[p]
      hdrs == dict_items(Item(p).resp.headers)
      name == resolve_vsix_filename(Item(p).spec, hdrs)
      r1   == [r EXCEPT !.requests = Append(@, r.idx), !.headers = hdrs,
                        !.resolves = @ + 1]
      pp   == payload_paths(name.v)
  IN  /\ r.pc = "dv_open"
      /\ Commit(dir, ino,
                [proc EXCEPT ![p] =
                   IF ~name.ok THEN Raise(r1, "ValueError")
                   ELSE [r1 EXCEPT !.pc = "aw_open", !.phase = "raw",
                                   !.final_vsix = pp.final,
                                   !.raw_download = pp.raw,
                                   !.dest = pp.raw]])

\* opener(req) raises (URLError, HTTPError).
DvRequestFails(p) ==
  /\ proc[p].pc = "dv_open"
  /\ Commit(dir, ino,
            [proc EXCEPT ![p] =
               Raise([proc[p] EXCEPT !.requests = Append(@, proc[p].idx)],
                     "TransportFailure")])

\* atomic_write_bytes: open(tmp, "wb").
AwOpen(p) ==
  LET r   == proc[p]
      tmp == PartPath(r.dest)
      d   == OpenWriteDir(dir, ino, tmp)
      n   == OpenWriteIno(dir, ino, tmp)
  IN  /\ r.pc = "aw_open"
      /\ Commit(d, n,
                [proc EXCEPT ![p] =
                   [r EXCEPT !.pc = "aw_loop", !.tmp = tmp,
                             !.wfd = OpenAt(d[tmp]), !.rfd = Closed,
                             !.aw_pre = FileAt(dir, ino, r.dest),
                             !.aw_n = 0]])

\* Variant: every copy reads the raw download.
AwSourcePathRaw(r) == r.raw_download

\* The file the chunks of this atomic_write_bytes call are read from.
AwSourcePath(r) ==
  IF r.phase = "norm" THEN r.raw_download ELSE r.normalized_zip

\* The next chunk of data_iter: iter_response_chunks reads the response,
\* iter_file_chunks opens the file at its first chunk and reads on.
\* kind is "data", "eof" or "error"; r is the process after the read.
AwSource(r, body) ==
  IF r.phase = "raw"
  THEN LET r1 == [r EXCEPT !.body_reads = @ + 1,
                           !.at_stream =
                              IF r.body_reads = 0
                              THEN <<r.final_vsix, r.raw_download>> ELSE @]
       IN  IF r.resp_off < Len(body)
           THEN [kind |-> "data", b |-> body[r.resp_off + 1],
                 r |-> [r1 EXCEPT !.resp_off = @ + 1]]
           ELSE [kind |-> "eof", b |-> Hole, r |-> r1]
  ELSE IF ~r.rfd.open /\ AwSourcePath(r) \notin DOMAIN dir
  THEN [kind |-> "error", b |-> Hole, r |-> r]
  ELSE LET fd == IF r.rfd.open THEN r.rfd
                 ELSE OpenAt(dir[AwSourcePath(r)])
           c  == ino[fd.ino]
       IN  IF fd.off < Len(c)
           THEN [kind |-> "data", b |-> c[fd.off + 1],
                 r |-> [r EXCEPT !.rfd = [fd EXCEPT !.off = @ + 1]]]
           ELSE [kind |-> "eof", b |-> Hole, r |-> [r EXCEPT !.rfd = fd]]

\* One turn of "for chunk in data_iter: f.write(chunk)", or its end, where
\* the with-block closes tmp.
AwChunk(p) ==
  LET r == proc[p]
      s == AwSource(r, Item(p).resp.body)
  IN  /\ r.pc = "aw_loop"
      /\ IF s.kind = "data"
         THEN Commit(dir,
                     [ino EXCEPT ![r.wfd.ino] = WriteAt(@, r.wfd.off, s.b)],
                     [proc EXCEPT ![p] =
                        [s.r EXCEPT !.wfd.off = @ + 1, !.aw_n = @ + 1]])
         ELSE IF s.kind = "eof"
         THEN Commit(dir, ino,
                     [proc EXCEPT ![p] =
                        [s.r EXCEPT !.pc = "aw_replace", !.rfd = Closed,
                                    !.wfd = Closed]])
         ELSE Commit(dir, ino, [proc EXCEPT ![p] = Raise(s.r, "OSError")])

\* A chunk cannot be produced (the connection or the disk fails) or cannot
\* be written; a failing write may have put a part of the chunk on disk.
AwChunkFails(p) ==
  LET r == proc[p]
      s == AwSource(r, Item(p).resp.body)
  IN  /\ r.pc = "aw_loop"
      /\ \/ Commit(dir, ino,
                   [proc EXCEPT ![p] =
                      Raise(r, IF r.phase = "raw" THEN "TransportFailure"
                               ELSE "OSError")])
         \/ /\ s.kind = "data"
            /\ \E torn \in BOOLEAN :
                 Commit(dir,
                        IF torn
                        THEN [ino EXCEPT ![r.wfd.ino] =
                                WriteAt(@, r.wfd.off, Torn)]
                        ELSE ino,
                        [proc EXCEPT ![p] = Raise(s.r, "OSError")])

\* tmp.replace(dest) of the process r: the directory after it.
ReplaceDir(r) == Rename(dir, r.tmp, r.dest)

\* atomic_write_bytes: tmp.replace(dest), and the caller goes on.
AwReplace(p) ==
  LET r == proc[p]
  IN  /\ r.pc = "aw_replace"
      /\ IF r.tmp \notin DOMAIN dir
         THEN Commit(dir, ino, [proc EXCEPT ![p] = Raise(r, "OSError")])
         ELSE Commit(ReplaceDir(r), ino,
                     [proc EXCEPT ![p] =
                        IF r.phase = "raw"
                        THEN [r EXCEPT !.pc = "nz_start",
                                       !.normalized_zip =
                                          normalized_path(r.final_vsix)]
                        ELSE IF r.phase = "norm"
                        THEN [r EXCEPT !.pc = "nz_check"]
                        ELSE [r EXCEPT !.pc = "dv_replace"]])

\* "gzip" in (_header_get(headers, "Content-Encoding") or "").lower().strip()
is_gzip_header(headers) ==
  LET ce == header_get(headers, S_content_encoding)
  IN  FindSub(Strip(Lower(IF ce.some THEN ce.v ELSE <<>>)), S_gzip) # 0

\* Variant: the magic is never recognised.
is_gzip_magic_never(c) == FALSE

\* _read_prefix(src, 2) == b"\x1f\x8b"
is_gzip_magic(c) == c # <<>> /\ c[1].t = "gzhdr"

\* Variant: any existing file passes for an archive.
is_zip_file_any_file(path) == path \in DOMAIN dir

\* is_zip_file(path): zipfile.is_zipfile answers False for a missing file.
is_zip_file(path) ==
  path \in DOMAIN dir /\ IsZipContent(ino[dir[path]])

\* normalize_to_zip: read the magic, choose to decompress or to copy.
NzStart(p) ==
  LET r == proc[p]
  IN  /\ r.pc = "nz_start"
      /\ Commit(dir, ino,
                [proc EXCEPT ![p] =
                   IF r.raw_download \notin DOMAIN dir
                   THEN Raise(r, "OSError")
                   ELSE IF \/ is_gzip_magic(ino[dir[r.raw_download]])
                           \/ is_gzip_header(r.headers)
                   THEN [r EXCEPT !.pc = "gz_open", !.phase = "gz",
                                  !.dest = r.normalized_zip]
                   ELSE [r EXCEPT !.pc = "aw_open", !.phase = "norm",
                                  !.dest = r.normalized_zip]])

\* gzip.open(src, "rb") and open(tmp, "wb").
GzOpen(p) ==
  LET r   == proc[p]
      tmp == PartPath(r.dest)
      d   == OpenWriteDir(dir, ino, tmp)
      n   == OpenWriteIno(dir, ino, tmp)
  IN  /\ r.pc = "gz_open"
      /\ IF r.raw_download \notin DOMAIN dir
         THEN Commit(dir, ino, [proc EXCEPT ![p] = Raise(r, "OSError")])
         ELSE Commit(d, n,
                     [proc EXCEPT ![p] =
                        [r EXCEPT !.pc = "gz_loop", !.tmp = tmp,
                                  !.rfd = OpenAt(dir[r.raw_download]),
                                  !.wfd = OpenAt(d[tmp])]])

\* One turn of the decompression loop, or its end.
GzChunk(p) ==
  LET r == proc[p]
      g == GzNext(ino[r.rfd.ino], r.rfd.off)
  IN  /\ r.pc = "gz_loop"
      /\ IF g.kind = "data"
         THEN Commit(dir,
                     [ino EXCEPT ![r.wfd.ino] = WriteAt(@, r.wfd.off, g.b)],
                     [proc EXCEPT ![p] =
                        [r EXCEPT !.rfd.off = g.off, !.wfd.off = @ + 1]])
         ELSE IF g.kind = "eof"
         THEN Commit(dir, ino,
                     [proc EXCEPT ![p] =
                        [r EXCEPT !.pc = "gz_replace", !.rfd = Closed,
                                  !.wfd = Closed]])
         ELSE Commit(dir, ino,
                     [proc EXCEPT ![p] = Raise(r, "DecompressError")])

\* normalize_to_zip: tmp.replace(dest) after decompressing.
GzReplace(p) ==
  LET r == proc[p]
  IN  /\ r.pc = "gz_replace"
      /\ IF r.tmp \notin DOMAIN dir
         THEN Commit(dir, ino, [proc EXCEPT ![p] = Raise(r, "OSError")])
         ELSE Commit(ReplaceDir(r), ino, [proc EXCEPT ![p].pc = "nz_check"])

\* _read_prefix(dest, 64), for the error message.
Preview(path) ==
  LET c == ino[dir[path]] IN IF c = <<>> THEN <<>> ELSE <<c[1]>>

\* normalize_to_zip validates its result; download_vsix then repacks, or
\* calls atomic_write_bytes(final.part, iter_file_chunks(normalized_zip)).
NzCheck(p) ==
  LET r == proc[p]
  IN  /\ r.pc = "nz_check"
      /\ Commit(dir, ino,
                [proc EXCEPT ![p] =
                   IF ~is_zip_file(r.normalized_zip)
                   THEN IF r.normalized_zip \notin DOMAIN dir
                        THEN Raise(r, "OSError")
                        ELSE Raise([r EXCEPT !.preview =
                                               Preview(r.normalized_zip)],
                                   "NotAnArchive")
                   ELSE IF r.repack THEN [r EXCEPT !.pc = "rp_check"]
                   ELSE [r EXCEPT !.pc = "aw_open", !.phase = "copy",
                                  !.dest = PartPath(r.final_vsix)]])

\* repack_zip checks its source again.
RpCheck(p) ==
  LET r == proc[p]
  IN  /\ r.pc = "rp_check"
      /\ Commit(dir, ino,
                [proc EXCEPT ![p] =
                   IF ~is_zip_file(r.normalized_zip)
                   THEN IF r.normalized_zip \notin DOMAIN dir
                        THEN Raise(r, "OSError")
                        ELSE Raise([r EXCEPT !.preview =
                                               Preview(r.normalized_zip)],
                                   "NotAnArchive")
                   ELSE [r EXCEPT !.pc = "rp_open", !.phase = "repack",
                                  !.dest = r.final_vsix]])

\* Variant: the new archive is written at dest_zip itself.
repack_tmp_in_place(dest_zip) == dest_zip

\* repack_zip: tmp = dest_zip.with_suffix(dest_zip.suffix + ".part")
repack_tmp(dest_zip) == Sibling(dest_zip, S_part)

\* ZipFile(src_zip, "r") reads the central directory, ZipFile(tmp, "w")
\* creates or truncates tmp.
RpOpen(p) ==
  LET r     == proc[p]
      tmp   == repack_tmp(r.dest)
      d     == OpenWriteDir(dir, ino, tmp)
      n     == OpenWriteIno(dir, ino, tmp)
      infos == ZipInfolist(ino[dir[r.normalized_zip]])
  IN  /\ r.pc = "rp_open"
      /\ IF r.normalized_zip \notin DOMAIN dir
         THEN Commit(dir, ino, [proc EXCEPT ![p] = Raise(r, "OSError")])
         ELSE IF ~infos.ok
         THEN Commit(dir, ino, [proc EXCEPT ![p] = Raise(r, "BadZipFile")])
         ELSE Commit(d, n,
                     [proc EXCEPT ![p] =
                        [r EXCEPT !.pc = "rp_loop", !.tmp = tmp,
                                  !.infos = infos.v, !.k = 0,
                                  !.rfd = OpenAt(dir[r.normalized_zip]),
                                  !.wfd = OpenAt(d[tmp])]])

\* ZipFile.close() of the writer after k entries: the central directory
\* and the end record follow them.
ZipClose(c, infos, k) == WriteAt(c, k, EocdBlock(SubSeq(infos, 1, k)))

\* The name of a directory entry: it ends with "/".
S_dir_entry == "d/"

\* info.is_dir()
is_dir(name) == name = S_dir_entry

\* One entry is read from the source (b"" for a directory entry) and
\* written with a fresh ZipInfo; a reader error leaves the with-block,
\* which closes the writer.
RpEntry(p) ==
  LET r    == proc[p]
      name == r.infos[r.k + 1]
      data == IF is_dir(name) THEN [ok |-> TRUE, v |-> 0]
              ELSE ZipRead(ino[r.rfd.ino], r.infos, name)
  IN  /\ r.pc = "rp_loop"
      /\ r.k < Len(r.infos)
      /\ IF data.ok
         THEN Commit(dir,
                     [ino EXCEPT ![r.wfd.ino] =
                        WriteAt(@, r.k, EntBlock(name, data.v, "deflated"))],
                     [proc EXCEPT ![p] = [r EXCEPT !.k = @ + 1]])
         ELSE Commit(dir,
                     [ino EXCEPT ![r.wfd.ino] = ZipClose(@, r.infos, r.k)],
                     [proc EXCEPT ![p] = Raise(r, "BadZipFile")])

\* The loop is over: both archives are closed.
RpClose(p) ==
  LET r == proc[p]
  IN  /\ r.pc = "rp_loop"
      /\ r.k = Len(r.infos)
      /\ Commit(dir,
                [ino EXCEPT ![r.wfd.ino] = ZipClose(@, r.infos, r.k)],
                [proc EXCEPT ![p] =
                   [r EXCEPT !.pc = "rp_replace", !.rfd = Closed,
                             !.wfd = Closed]])

\* repack_zip: tmp.replace(dest_zip).
RpReplace(p) ==
  LET r == proc[p]
  IN  /\ r.pc = "rp_replace"
      /\ IF r.tmp \notin DOMAIN dir
         THEN Commit(dir, ino, [proc EXCEPT ![p] = Raise(r, "OSError")])
         ELSE Commit(ReplaceDir(r), ino, [proc EXCEPT ![p].pc = "cleanup"])

\* download_vsix without repack: tmp.replace(final_vsix), tmp = final.part.
DvReplace(p) ==
  LET r == proc[p]
  IN  /\ r.pc = "dv_replace"
      /\ IF r.dest \notin DOMAIN dir
         THEN Commit(dir, ino, [proc EXCEPT ![p] = Raise(r, "OSError")])
         ELSE Commit(Rename(dir, r.dest, r.final_vsix), ino,
                     [proc EXCEPT ![p].pc = "cleanup"])

\* The cleanup loop after its turn for one file: on to the next file, or
\* out of the loop.
cleanup_next(r) ==
  IF Cardinality(r.tried) >= Len(cleanup_targets(r))
  THEN [r EXCEPT !.pc = "dv_done"] ELSE r

\* Variant: the OSError of unlink is not caught.
cleanup_raise(r, path) == Raise(r, "OSError")

\* except OSError: log.warning(...)
cleanup_warn(r, path) == [r EXCEPT !.warnings = @ \cup {path}]

\* The file the cleanup loop is at.
CleanupPath(r) == cleanup_targets(r)[Cardinality(r.tried) + 1]

\* p.unlink(missing_ok=True)
ClUnlink(p) ==
  LET r    == proc[p]
      path == CleanupPath(r)
  IN  /\ r.pc = "cleanup"
      /\ Commit(Unlink(dir, path), ino,
                [proc EXCEPT ![p] =
                   cleanup_next([r EXCEPT !.tried = @ \cup {path}])])

\* p.unlink raises OSError: the file stays, a warning is logged.
ClUnlinkFails(p) ==
  LET r    == proc[p]
      path == CleanupPath(r)
  IN  /\ r.pc = "cleanup"
      /\ Commit(dir, ino,
                [proc EXCEPT ![p] =
                   cleanup_next(cleanup_warn([r EXCEPT !.tried = @ \cup {path}],
                                             path))])

\* download_vsix returns final_vsix; download_many appends it.
DvReturn(p) ==
  LET r == proc[p]
  IN  /\ r.pc = "dv_done"
      /\ Commit(dir, ino,
                [proc EXCEPT ![p] =
                   [r EXCEPT !.pc = "dm_loop",
                             !.results = Append(@, r.final_vsix),
                             !.idx = @ + 1]])

\* Where an operating-system call other than a chunk read or write can
\* fail with OSError: opening, renaming, reading a prefix.
OsCallSites ==
  {"aw_open", "aw_replace", "nz_start", "gz_open", "gz_replace",
   "rp_open", "rp_replace", "dv_replace"}

OsCallFails(p) ==
  /\ proc[p].pc \in OsCallSites
  /\ Commit(dir, ino, [proc EXCEPT ![p] = Raise(proc[p], "OSError")])

\* A read or a write of the decompression loop fails.
GzChunkFails(p) ==
  LET r == proc[p]
  IN  /\ r.pc = "gz_loop"
      /\ \E torn \in BOOLEAN :
           Commit(dir,
                  IF torn
                  THEN [ino EXCEPT ![r.wfd.ino] = WriteAt(@, r.wfd.off, Torn)]
                  ELSE ino,
                  [proc EXCEPT ![p] = Raise(r, "OSError")])

\* A read or a write of the repack loop fails: the with-block closes the
\* writer, which writes the directory of the entries it has.
RpEntryFails(p) ==
  LET r == proc[p]
  IN  /\ r.pc = "rp_loop"
      /\ Commit(dir,
                [ino EXCEPT ![r.wfd.ino] = ZipClose(@, r.infos, r.k)],
                [proc EXCEPT ![p] = Raise(r, "OSError")])

Step(p) ==
  \/ DmNext(p) \/ DmReturn(p) \/ DvRequest(p)
  \/ AwOpen(p) \/ AwChunk(p) \/ AwReplace(p)
  \/ NzStart(p) \/ GzOpen(p) \/ GzChunk(p) \/ GzReplace(p) \/ NzCheck(p)
  \/ RpCheck(p) \/ RpOpen(p) \/ RpEntry(p) \/ RpClose(p) \/ RpReplace(p)
  \/ DvReplace(p) \/ ClUnlink(p) \/ DvReturn(p)

Fault(p) ==
  \/ DvRequestFails(p) \/ AwChunkFails(p) \/ GzChunkFails(p)
  \/ RpEntryFails(p) \/ OsCallFails(p) \/ ClUnlinkFails(p)

\* One caller, one batch, any fault.
Next == \E p \in Procs : Step(p) \/ Fault(p)

Spec == Init /\ [][Next]_vars

\* Two processes download the same item into the same dest_dir; the
\* operating system does not fail.
InitConc ==
  /\ fn = FnIdle
  /\ dir = <<>>
  /\ ino = <<>>
  /\ \E repack \in BOOLEAN :
       proc = [p \in Procs |->
                 StartProc(<<[spec |-> SpecLinux,
                              resp |-> Response(HdrNone, ZipPayload)]>>,
                           repack)]

NextConc ==
  \E p \in Procs :
    \/ DmNext(p) \/ DmReturn(p) \/ DvRequest(p)
    \/ AwOpen(p) \/ AwChunk(p) \/ AwReplace(p) \/ NzStart(p) \/ NzCheck(p)
    \/ RpCheck(p) \/ RpOpen(p) \/ RpEntry(p) \/ RpClose(p) \/ RpReplace(p)
    \/ DvReplace(p) \/ ClUnlink(p) \/ DvReturn(p)

SpecConc == InitConc /\ [][NextConc]_vars

----------------------------------------------------------------------------
(* The filename functions applied to drawn inputs.                          *)

StemChars == {"/", ".", " ", NUL, "a"}

Stems == UNION {[1..k -> StemChars] : k \in 0..MaxStem}

Endings ==
  { <<>>, S_vsix, <<".", "V", "S", "I", "X">>, S_zip, <<"a", ".", "t">> }

S_evil == <<".", ".", "/", ".", ".", "/", "e", "v", "i", "l">> \o S_vsix

S_foo_bar == <<"f", "o", "o", " ", "b", "a", "r">> \o S_vsix

S_b_vsix == <<"b">> \o S_vsix

\* The file names a server may supply.
FnNames == {s \o e : s \in Stems, e \in Endings} \cup {S_evil, S_foo_bar}

\* How the Content-Disposition header carries the name: not at all, as a
\* simple or as an extended parameter, after a disposition type or first.
CdForms ==
  {"absent", "simple", "att_simple", "ext", "att_ext", "att_ext_simple",
   "att_simple_ext", "ext_simple"}

HasExtended(form) ==
  form \in {"ext", "att_ext", "att_ext_simple", "att_simple_ext", "ext_simple"}

HasSimple(form) ==
  form \in {"simple", "att_simple", "att_ext_simple", "att_simple_ext",
            "ext_simple"}

Semi(a, b) == a \o <<";", " ">> \o b

CdValue(form, n) ==
  IF form = "simple" THEN CdSimple(n)
  ELSE IF form = "att_simple" THEN Attachment(CdSimple(n))
  ELSE IF form = "ext" THEN CdExtended(n)
  ELSE IF form = "att_ext" THEN Attachment(CdExtended(n))
  ELSE IF form = "att_ext_simple"
  THEN Attachment(Semi(CdExtended(n), CdSimple(S_b_vsix)))
  ELSE IF form = "att_simple_ext"
  THEN Attachment(Semi(CdSimple(S_b_vsix), CdExtended(n)))
  ELSE Semi(CdExtended(n), CdSimple(S_b_vsix))

\* The header mapping of a response; the name of the header is written
\* in lower case when a disposition type leads the value.
FnHeaders(form, n) ==
  IF form = "absent" THEN <<>>
  ELSE <<<<IF form \in {"att_simple", "att_ext"}
           THEN Lower(S_content_disposition) ELSE S_content_disposition,
           CdValue(form, n)>>>>

FnInputs ==
  {[FnIdle EXCEPT !.pc = "sanitize", !.name = n] : n \in FnNames}
    \cup {[FnIdle EXCEPT !.pc = "resolve", !.name = n, !.form = f, !.spec = s] :
            n \in FnNames, f \in CdForms, s \in {SpecLinux, SpecUniversal}}

InitFn ==
  /\ fn \in FnInputs
  /\ dir = <<>>
  /\ ino = <<>>
  /\ proc = [p \in Procs |-> IdleProc]

\* safe_filename(name)
FnSanitize ==
  /\ fn.pc = "sanitize"
  /\ fn' = [fn EXCEPT !.pc = "sanitized", !.out1 = safe_filename(fn.name)]
  /\ UNCHANGED <<dir, ino, proc>>

\* safe_filename(safe_filename(name))
FnSanitizeAgain ==
  /\ fn.pc = "sanitized"
  /\ fn' = [fn EXCEPT !.pc = "sanitized2", !.out2 = safe_filename(fn.out1)]
  /\ UNCHANGED <<dir, ino, proc>>

\* resolve_vsix_filename(spec, headers), and what it took from the header
FnResolve ==
  LET h == FnHeaders(fn.form, fn.name)
  IN  /\ fn.pc = "resolve"
      /\ fn' = [fn EXCEPT
                  !.pc = "resolved",
                  !.cd = filename_from_content_disposition(
                           header_get(h, S_content_disposition)),
                  !.res = resolve_vsix_filename(fn.spec, h)]
      /\ UNCHANGED <<dir, ino, proc>>

NextFn == FnSanitize \/ FnSanitizeAgain \/ FnResolve

SpecFn == InitFn /\ [][NextFn]_vars

----------------------------------------------------------------------------
(* repack_zip on its own: a valid source archive is drawn, with up to       *)
(* MaxEntries entries, among them a directory and entries of one name.      *)

MaxEntries == 3

RepackEntries ==
  {[name |-> "a", data |-> 1], [name |-> "a", data |-> 2],
   [name |-> "b", data |-> 1], [name |-> S_dir_entry, data |-> 0]}

RepackSources == UNION {[1..n -> RepackEntries] : n \in 0..MaxEntries}

S_x_vsix == <<"x">> \o S_vsix

InitRepack ==
  /\ fn = FnIdle
  /\ dir = (normalized_path(S_x_vsix) :> 1)
  /\ \E es \in RepackSources : ino = (1 :> ZipBytes(es, "stored"))
  /\ proc = [p \in Procs |->
               IF p = 1
               THEN [IdleProc EXCEPT
                       !.pc = "rp_check", !.final_vsix = S_x_vsix,
                       !.raw_download = payload_paths(S_x_vsix).raw,
                       !.normalized_zip = normalized_path(S_x_vsix),
                       !.fs0 = (normalized_path(S_x_vsix) :> <<>>)]
               ELSE IdleProc]

NextRepack ==
  \E p \in Procs :
    RpCheck(p) \/ RpOpen(p) \/ RpEntry(p) \/ RpClose(p) \/ RpReplace(p)

SpecRepack == InitRepack /\ [][NextRepack]_vars

----------------------------------------------------------------------------
(* download_many against a server that does not fail: batches of specs      *)
(* whose answers differ in the archive and in the name the server gives.    *)

ZipPayload2 == ZipBytes(<<[name |-> "a", data |-> 2]>>, "stored")

BatchItems ==
  {[spec |-> s, resp |-> Response(h, b)] :
     s \in {SpecLinux, SpecUniversal}, h \in {HdrNone, HdrName},
     b \in {ZipPayload, ZipPayload2}}

InitBatch ==
  /\ fn = FnIdle
  /\ dir = <<>>
  /\ ino = <<>>
  /\ \E n \in 1..MaxBatch, repack \in BOOLEAN :
       \E batch \in [1..n -> BatchItems] :
         proc = [p \in Procs |->
                   IF p = 1 THEN StartProc(batch, repack) ELSE IdleProc]

SpecBatch == InitBatch /\ [][NextConc]_vars

----------------------------------------------------------------------------
(* build_vspackage_url on its own and in download_vsix: a spec is drawn,    *)
(* the URL is built from it, and a batch of that one spec is run against a  *)
(* server that answers with the archive.                                    *)

MaxId == 3

\* Identifiers of up to MaxId characters, with no, one or more separators.
UrlIds == UNION {[1..n -> {"p", "."}] : n \in 0..MaxId}

\* target_platform: None, the empty string, a name.
UrlPlatforms == {None, Some(<<>>), Some(<<"l">>)}

UrlSpecs ==
  {[unique_identifier |-> id, version |-> <<"1">>, target_platform |-> t] :
     id \in UrlIds, t \in UrlPlatforms}

InitUrl ==
  /\ \E s \in UrlSpecs, repack \in BOOLEAN :
       /\ fn = [FnIdle EXCEPT !.pc = "build_url", !.spec = s]
       /\ proc = [p \in Procs |->
                    IF p = 1
                    THEN StartProc(<<[spec |-> s,
                                      resp |-> Response(HdrNone, ZipPayload)]>>,
                                   repack)
                    ELSE IdleProc]
  /\ dir = <<>>
  /\ ino = <<>>

\* build_vspackage_url(spec)
FnBuildUrl ==
  /\ fn.pc = "build_url"
  /\ fn' = [fn EXCEPT !.pc = "url_built",
                      !.url = build_vspackage_url(fn.spec,
                                                  MARKETPLACE_VSPACKAGE_BASE)]
  /\ UNCHANGED <<dir, ino, proc>>

NextUrl == FnBuildUrl \/ NextConc

SpecUrl == InitUrl /\ [][NextUrl]_vars

----------------------------------------------------------------------------
(* Claims about the filename functions (checked under SpecFn)               *)

\* What the resolver returns when it uses the server-supplied name n.
ResolvedFrom(n) == ensure_vsix_suffix(PathName(safe_filename(n)))

\* C8: whenever the Content-Disposition value carries an extended
\* parameter filename*=UTF-8''<percent-encoded name>, in any position of
\* the list (also first or alone), the resolver takes the decoded name and
\* prefers it to a simple filename= parameter; it takes the simple
\* parameter's value only when there is no extended one, and the name
\* derived from the spec only when there is neither.
C8_ExtendedParameterPreferred ==
  (fn.pc = "resolved" /\ fn.name # <<>>) =>
    IF HasExtended(fn.form) \/ HasSimple(fn.form)
    THEN fn.cd = Some(fn.name) /\ fn.res = ResolvedFrom(fn.name)
    ELSE /\ fn.cd = None
         /\ fn.res = ensure_vsix_suffix(PathName(default_vsix_name(fn.spec)))

\* C9: for every spec and every header mapping, resolve_vsix_filename
\* returns a name that is non-empty, holds no path separator, is no
\* traversal segment and ends in ".vsix".
C9_ResolvedNameIsSafeSegment ==
  fn.pc = "resolved" =>
    /\ fn.res.ok
    /\ fn.res.v # <<>>
    /\ IndexOf(fn.res.v, "/") = 0
    /\ fn.res.v \notin {<<".">>, <<".", ".">>}
    /\ EndsWith(fn.res.v, S_vsix)

\* C10: safe_filename is idempotent:
\* safe_filename(safe_filename(name)) = safe_filename(name).
C10_SanitizeIdempotent ==
  fn.pc = "sanitized2" => fn.out2 = fn.out1

----------------------------------------------------------------------------
(* Claims about the pipeline (checked under Spec, C2 under SpecConc)        *)

\* What this atomic_write_bytes call reads its chunks from.
AwSourceContent(p) ==
  IF proc[p].phase = "raw" THEN Item(p).resp.body
  ELSE ino[dir[AwSourcePath(proc[p])]]

\* C1: atomic_write_bytes(dest, chunks) interrupted by an I/O error while
\* chunk N+1 is produced or written: the error reaches the caller, dest is
\* absent if it was absent and otherwise holds its pre-call content, and
\* the N chunks written (and what a failing write left) are in
\* <dest>.part, which stays; dest is not touched while the chunks are
\* written either.
C1_AtomicWriteFaultLeavesDest ==
  \A p \in Procs :
    LET r == proc[p]
    IN  /\ r.pc \in {"aw_loop", "aw_replace"} =>
             FileAt(dir, ino, r.dest) = r.aw_pre
        /\ (r.pc = "failed" /\ r.fail_at = "aw_loop") =>
             /\ r.raised = <<<<r.idx, r.err>>>>
             /\ r.err \in {"OSError", "TransportFailure"}
             /\ FileAt(dir, ino, r.dest) = r.aw_pre
             /\ r.tmp = r.dest \o S_part
             /\ r.tmp \in DOMAIN dir
             /\ LET written == SubSeq(AwSourceContent(p), 1, r.aw_n)
                IN  ino[dir[r.tmp]] \in {written, written \o <<Torn>>}

\* A write failed after at least one chunk, over a dest that existed.
C1_Witness ==
  \E p \in Procs :
    /\ proc[p].pc = "failed"
    /\ proc[p].fail_at = "aw_loop"
    /\ proc[p].aw_n >= 1
    /\ proc[p].aw_pre.some

\* C2: two processes run download_vsix for the same final name in the
\* same dest_dir: under every interleaving each file found at a rename
\* destination (the raw download, the normalized file, the final path) is
\* a complete file, never a truncated one.
C2_RenameDestinationsComplete ==
  \A p \in Procs :
    LET r == proc[p]
        whole(path, c) ==
          (path # <<>> /\ path \in DOMAIN dir) => ino[dir[path]] = c
    IN  r.pc \notin {"idle", "failed"} =>
          /\ whole(r.raw_download, ZipPayload)
          /\ whole(r.normalized_zip, ZipPayload)
          /\ whole(r.final_vsix,
                   ZipBytes(ArchiveEntries,
                            IF r.repack THEN "deflated" ELSE "stored"))

\* The steps of download_vsix that follow a passed validation.
AfterValidation(r) ==
  \/ r.pc \in {"rp_check", "rp_open", "rp_loop", "rp_replace", "dv_replace"}
  \/ r.pc \in {"aw_open", "aw_loop", "aw_replace"} /\ r.phase = "copy"

\* C3: when the normalized file is no archive container, normalize_to_zip
\* raises NotAnArchive with a preview of the file's start, download_vsix
\* lets it through, and the final path is as the call found it (absent, or
\* with its pre-call content); the run goes past the validation only with
\* a normalized file that ends in an end-of-central-directory record.
C3_NotAnArchiveLeavesFinal ==
  \A p \in Procs :
    LET r  == proc[p]
        nz == ino[dir[r.normalized_zip]]
    IN  /\ (r.pc = "failed" /\ r.fail_at = "nz_check"
              /\ r.normalized_zip \in DOMAIN dir) =>
             /\ r.err = "NotAnArchive"
             /\ r.raised = <<<<r.idx, "NotAnArchive">>>>
             /\ nz = <<>> \/ nz[Len(nz)].t # "eocd" \/ nz[Len(nz)].z
             /\ r.preview = SubSeq(nz, 1, 1)
             /\ FileAt(dir, ino, r.final_vsix) = SnapAt(r.fs0, r.final_vsix)
        /\ AfterValidation(r) =>
             /\ r.normalized_zip \in DOMAIN dir
             /\ nz # <<>> /\ nz[Len(nz)].t = "eocd" /\ ~nz[Len(nz)].z

\* NotAnArchive was raised over a final path that held an earlier artifact.
C3_Witness ==
  \E p \in Procs :
    /\ proc[p].pc = "failed"
    /\ proc[p].err = "NotAnArchive"
    /\ proc[p].final_vsix \in DOMAIN proc[p].fs0
    /\ proc[p].preview = <<HtmlBlock(1)>>

\* C4: the output name is resolved from the headers at most once per run,
\* and once before the first read of the body; from that read on the final
\* path is that name, and the raw and the normalized path are its
\* siblings <final>.download and <final>.normalized.zip, the same at
\* every later step.
C4_PathsFixedBeforeStreaming ==
  \A p \in Procs :
    LET r == proc[p]
    IN  /\ r.resolves <= 1
        /\ (r.body_reads > 0 /\ r.pc \notin {"dm_loop", "returned"}) =>
             /\ r.resolves = 1
             /\ r.at_stream = <<r.final_vsix, r.raw_download>>
             /\ Ok(r.final_vsix) =
                  resolve_vsix_filename(Item(p).spec,
                                        dict_items(Item(p).resp.headers))
             /\ r.raw_download = r.final_vsix \o S_download
             /\ r.normalized_zip \in {<<>>, r.final_vsix \o S_normalized_zip}
             /\ r.dest \in {r.raw_download, r.normalized_zip, r.final_vsix,
                            r.final_vsix \o S_part}

\* A run whose name came from the server's header has streamed the body,
\* normalized and produced the final file.
C4_Witness ==
  \E p \in Procs :
    /\ proc[p].pc = "dv_done"
    /\ proc[p].body_reads > 1
    /\ proc[p].final_vsix = <<"x">> \o S_vsix
    /\ proc[p].normalized_zip # <<>>

\* The working files of a run: the .part siblings it writes.
PartFiles(r) ==
  {r.raw_download \o S_part, r.normalized_zip \o S_part,
   r.final_vsix \o S_part, r.final_vsix \o S_part \o S_part}

\* C5, as claimed: whenever download_vsix returns, neither <final>.download
\* nor <final>.normalized.zip exists and no .part file of the run remains.
C5_AlwaysCleanedUp ==
  \A p \in Procs :
    LET r == proc[p]
    IN  r.pc = "dv_done" =>
          /\ r.raw_download \notin DOMAIN dir
          /\ r.normalized_zip \notin DOMAIN dir
          /\ PartFiles(r) \cap DOMAIN dir = {}

\* C5, amended: whenever download_vsix returns, no .part file of the run
\* remains and the final artifact exists; <final>.download and
\* <final>.normalized.zip are each absent unless deleting that file raised
\* OSError, in which case it is left and a warning names it.
C5_CleanedUpUnlessUnlinkFailed ==
  \A p \in Procs :
    LET r == proc[p]
    IN  r.pc = "dv_done" =>
          /\ r.raw_download \in DOMAIN dir => r.raw_download \in r.warnings
          /\ r.normalized_zip \in DOMAIN dir =>
               r.normalized_zip \in r.warnings
          /\ PartFiles(r) \cap DOMAIN dir = {}
          /\ r.final_vsix \in DOMAIN dir

\* A run without repacking returned with every transient file gone.
C5_Witness ==
  \E p \in Procs :
    /\ proc[p].pc = "dv_done"
    /\ ~proc[p].repack
    /\ proc[p].warnings = {}
    /\ DOMAIN dir = {proc[p].final_vsix}

\* C6: a failing deletion of an intermediate never raises: download_vsix
\* still tries the other intermediate, logs a warning for the one that
\* stayed and returns the final path, where the complete artifact is.
C6_CleanupFailureNotFatal ==
  \A p \in Procs :
    LET r == proc[p]
    IN  /\ r.pc = "failed" => r.fail_at # "cleanup"
        /\ r.pc = "dv_done" =>
             /\ r.tried = {r.raw_download, r.normalized_zip}
             /\ r.warnings \subseteq r.tried \cap DOMAIN dir
             /\ r.raised = <<>>
             /\ FileAt(dir, ino, r.final_vsix) =
                  Some(ZipBytes(ArchiveEntries,
                                IF r.repack THEN "deflated" ELSE "stored"))
        /\ r.pc \in {"dm_loop", "returned"} =>
             /\ Len(r.results) = r.idx - 1
             /\ r.raised = <<>>

\* Deleting the raw download failed; the normalized file was deleted all
\* the same and the run returned.
C6_Witness ==
  \E p \in Procs :
    /\ proc[p].pc = "dv_done"
    /\ proc[p].warnings = {proc[p].raw_download}
    /\ proc[p].raw_download \in DOMAIN dir
    /\ proc[p].normalized_zip \notin DOMAIN dir

\* C7: download_many takes the specs in order, each once; the first
\* failure, of item i, is the caller's error as raised: no request and no
\* file operation for an item after i, no second attempt, no result list.
C7_BatchFailsFast ==
  \A p \in Procs :
    LET r == proc[p]
    IN  /\ r.requests = [i \in 1..Len(r.requests) |-> i]
        /\ Len(r.requests) \in {r.idx - 1, r.idx}
        /\ r.touched \subseteq 1..r.idx
        /\ r.raised # <<>> =>
             /\ r.pc = "failed"
             /\ r.raised = <<<<r.idx, r.err>>>>
             /\ Len(r.results) = r.idx - 1
        /\ r.pc = "returned" =>
             Len(r.results) = Len(r.batch) /\ r.raised = <<>>

\* The first of two items failed after its request: nothing was asked or
\* written for the second.
C7_Witness ==
  \E p \in Procs :
    /\ proc[p].pc = "failed"
    /\ Len(proc[p].batch) = 2
    /\ proc[p].idx = 1
    /\ proc[p].requests = <<1>>
    /\ proc[p].touched = {1}

----------------------------------------------------------------------------
(* Claims about build_vspackage_url (checked under SpecUrl)                 *)

\* The number of separators in an identifier.
Separators(id) == Cardinality({i \in 1..Len(id) : id[i] = "."})

\* C11: for a spec whose identifier has a single separator,
\* build_vspackage_url returns
\* base/publishers/{publisher}/vsextensions/{package}/{version}/vspackage,
\* and the URL carries ?targetPlatform= exactly when target_platform is
\* not None, the empty string included.
C11_UrlShapeAndPlatformParameter ==
  (fn.pc = "url_built" /\ Separators(fn.spec.unique_identifier) = 1) =>
    LET id   == fn.spec.unique_identifier
        dot  == IndexOf(id, ".")
        segs == SplitOn(fn.url.v, "/")
        tp   == fn.spec.target_platform
    IN  /\ fn.url.ok
        /\ Len(segs) = 7
        /\ segs[1] = MARKETPLACE_VSPACKAGE_BASE
        /\ segs[3] = SubSeq(id, 1, dot - 1)
        /\ segs[5] = SubSeq(id, dot + 1, Len(id))
        /\ segs[6] = fn.spec.version
        /\ (FindSub(fn.url.v, S_targetPlatform) # 0) <=> tp.some
        /\ tp.some => EndsWith(fn.url.v, S_targetPlatform \o tp.v)

\* C12: for an identifier without a separator build_vspackage_url raises
\* ValueError (InvalidSpec), and download_vsix lets it through when it
\* builds the URL: no request was issued and dest_dir holds no file; an
\* identifier with a separator never fails this way.
C12_InvalidSpecBeforeAnyEffect ==
  /\ (fn.pc = "url_built" /\ IndexOf(fn.spec.unique_identifier, ".") = 0) =>
       ~fn.url.ok
  /\ \A p \in Procs :
       LET r  == proc[p]
           id == r.batch[1].spec.unique_identifier
       IN  (r.batch # <<>> /\ ~(r.pc = "dm_loop" /\ r.idx = 1)) =>
             IF IndexOf(id, ".") = 0
             THEN /\ r.pc = "failed"
                  /\ r.fail_at = "dv_open"
                  /\ r.raised = <<<<1, "InvalidSpec">>>>
                  /\ r.requests = <<>>
                  /\ r.touched = {}
                  /\ dir = <<>>
             ELSE r.err # "InvalidSpec"

\* A batch whose spec has no separator failed, and the URL builder was
\* called on that spec.
C12_Witness ==
  /\ fn.pc = "url_built"
  /\ fn.spec.unique_identifier = <<"p", "p">>
  /\ proc[1].pc = "failed"
  /\ proc[1].err = "InvalidSpec"

----------------------------------------------------------------------------
(* Claims about normalization and the final artifact (checked under Spec)   *)

\* The gzip magic starts the content.
HasGzipMagic(c) == c # <<>> /\ c[1] = GzHdr

\* A Content-Encoding header, under any spelling of its name, names gzip.
HasGzipHeader(headers) ==
  \E i \in 1..Len(headers) :
    /\ Lower(headers[i][1]) = Lower(S_content_encoding)
    /\ FindSub(Lower(headers[i][2]), S_gzip) # 0

\* The bytes a one-member gzip stream was made of.
Gunzipped(c) == [i \in 1..(Len(c) - 2) |-> [c[i + 1] EXCEPT !.z = FALSE]]

\* C13: normalize_to_zip decompresses exactly when a signal fires (a
\* Content-Encoding header naming gzip, or the gzip magic at the start of
\* the file): with the magic, dest holds the decompressed bytes; with no
\* signal, dest is byte-identical to the source; the source is unchanged.
C13_DecompressIffSignal ==
  \A p \in Procs :
    LET r      == proc[p]
        raw    == ino[dir[r.raw_download]]
        nz     == ino[dir[r.normalized_zip]]
        signal == HasGzipMagic(raw) \/ HasGzipHeader(r.headers)
    IN  /\ r.pc \in {"gz_open", "gz_loop", "gz_replace"} =>
             (r.raw_download \in DOMAIN dir => signal)
        /\ (r.pc \in {"aw_open", "aw_loop", "aw_replace"}
              /\ r.phase = "norm" /\ r.raw_download \in DOMAIN dir) => ~signal
        /\ r.pc = "nz_check" =>
             /\ r.raw_download \in DOMAIN dir
             /\ r.normalized_zip \in DOMAIN dir
             /\ raw = Item(p).resp.body
             /\ r.phase = (IF signal THEN "gz" ELSE "norm")
             /\ nz = (IF signal THEN Gunzipped(raw) ELSE raw)

\* A gzip-compressed archive was decompressed into the normalized file.
C13_Witness ==
  \E p \in Procs :
    /\ proc[p].pc = "nz_check"
    /\ proc[p].phase = "gz"
    /\ FileAt(dir, ino, proc[p].raw_download) = Some(GzipBytes(ZipPayload))
    /\ FileAt(dir, ino, proc[p].normalized_zip) = Some(ZipPayload)

\* A complete archive container: entries, then the central directory that
\* lists them.
CompleteArchive(c) ==
  /\ c # <<>>
  /\ c[Len(c)].t = "eocd" /\ ~c[Len(c)].z
  /\ Len(c[Len(c)].names) = Len(c) - 1
  /\ \A i \in 1..(Len(c) - 1) :
       c[i].t = "ent" /\ ~c[i].z /\ c[i].name = c[Len(c)].names[i]

\* The final path holds what the call found there.
FinalUntouched(r) ==
  FileAt(dir, ino, r.final_vsix) = SnapAt(r.fs0, r.final_vsix)

\* C16: download_vsix cleans up on every exit: when it raises after the raw
\* payload was written, none of the transient files it created
\* (<final>.download, <final>.normalized.zip, a .part file) is on disk.
C16_CleanupOnFailure ==
  \A p \in Procs :
    LET r == proc[p]
        transient == {r.raw_download, r.normalized_zip} \cup PartFiles(r)
    IN  (r.pc = "failed" /\ r.final_vsix # <<>>
           /\ r.fail_at \notin {"dv_open", "aw_open", "aw_loop", "aw_replace"}) =>
          \A path \in transient :
            path \in DOMAIN dir =>
              FileAt(dir, ino, path) = SnapAt(r.fs0, path)

\* C17: with repack=False a successful download_vsix leaves at the final
\* path a byte-identical copy of the normalized payload (the raw payload,
\* decompressed when it was gzip-encoded); the copy is made in working
\* files and installed by rename, so until then the final path is as the
\* call found it.
C17_NoRepackCopiesNormalized ==
  \A p \in Procs :
    LET r    == proc[p]
        body == Item(p).resp.body
        norm == IF HasGzipMagic(body) THEN Gunzipped(body) ELSE body
    IN  ~r.repack =>
          /\ (r.phase = "copy"
                /\ r.pc \in {"aw_open", "aw_loop", "aw_replace", "dv_replace"})
               => FinalUntouched(r)
          /\ r.pc = "dv_replace" =>
               FileAt(dir, ino, r.final_vsix \o S_part) = Some(norm)
          /\ r.pc \in {"cleanup", "dv_done"} =>
               /\ FileAt(dir, ino, r.final_vsix) = Some(norm)
               /\ r.normalized_zip \in DOMAIN dir =>
                    ino[dir[r.normalized_zip]] = norm

\* A gzip-encoded archive was downloaded without repacking, over an
\* earlier artifact.
C17_Witness ==
  \E p \in Procs :
    /\ proc[p].pc = "dv_done"
    /\ ~proc[p].repack
    /\ Item(p).resp.body = GzipBytes(ZipPayload)
    /\ FileAt(dir, ino, proc[p].final_vsix) = Some(ZipPayload)
    /\ SnapAt(proc[p].fs0, proc[p].final_vsix) = Some(OldVsix)

\* C18: download_vsix writes the final path only after the normalized file
\* passed the validation: whatever the run installed at the final path is
\* a complete archive container, and when download_vsix returns, the
\* returned path exists and holds one.
C18_ValidateBeforePublish ==
  \A p \in Procs :
    LET r == proc[p]
    IN  /\ (r.final_vsix # <<>> /\ ~FinalUntouched(r)) =>
             /\ r.final_vsix \in DOMAIN dir
             /\ CompleteArchive(ino[dir[r.final_vsix]])
        /\ r.pc = "dv_done" =>
             /\ r.final_vsix \in DOMAIN dir
             /\ CompleteArchive(ino[dir[r.final_vsix]])
        /\ \A i \in 1..Len(r.results) :
             /\ r.results[i] \in DOMAIN dir
             /\ CompleteArchive(ino[dir[r.results[i]]])

\* A repacked archive replaced an earlier artifact and the call returned.
C18_Witness ==
  \E p \in Procs :
    /\ proc[p].pc = "dv_done"
    /\ proc[p].repack
    /\ SnapAt(proc[p].fs0, proc[p].final_vsix) = Some(OldVsix)
    /\ FileAt(dir, ino, proc[p].final_vsix) =
         Some(ZipBytes(ArchiveEntries, "deflated"))

\* C19: a failure at any step of download_vsix leaves the final path as the
\* call found it (absent, or with its pre-call content); the final path
\* changes only by the rename that ends a successful run.
C19_FailureLeavesFinal ==
  \A p \in Procs :
    LET r == proc[p]
    IN  /\ r.pc = "failed" =>
             IF r.final_vsix = <<>> THEN Snapshot(dir, ino) = r.fs0
             ELSE FinalUntouched(r)
        /\ (r.final_vsix # <<>> /\ ~FinalUntouched(r)) =>
             r.pc \in {"cleanup", "dv_done", "dm_loop", "returned"}

\* Repacking failed in the middle, over an earlier artifact.
C19_Witness ==
  \E p \in Procs :
    /\ proc[p].pc = "failed"
    /\ proc[p].fail_at = "rp_loop"
    /\ proc[p].k >= 1
    /\ SnapAt(proc[p].fs0, proc[p].final_vsix) = Some(OldVsix)
    /\ proc[p].tmp \in DOMAIN dir

----------------------------------------------------------------------------
(* Claims about repack_zip (SpecRepack) and about batches (SpecBatch)       *)

\* Reading an archive back: the name and the content of each entry, in
\* the order of the archive.
ReadBack(c) == [i \in 1..(Len(c) - 1) |-> <<c[i].name, c[i].data>>]

\* C14: round trip of repack_zip: for every valid source archive, also one
\* with directory entries or with several entries of one name, reading the
\* repacked archive back gives the names and contents of the source, entry
\* for entry.
C14_RepackRoundTrip ==
  \A p \in Procs :
    LET r == proc[p]
    IN  (r.pc = "cleanup" /\ r.phase = "repack") =>
          /\ r.final_vsix \in DOMAIN dir
          /\ ReadBack(ino[dir[r.final_vsix]]) =
               ReadBack(ino[dir[r.normalized_zip]])

\* What download_vsix on its own leaves at the final path for a batch item.
StandaloneArtifact(it, repack) ==
  LET body == it.resp.body
  IN  IF repack
      THEN [i \in 1..Len(body) |->
              IF body[i].t = "ent" THEN [body[i] EXCEPT !.enc = "deflated"]
              ELSE body[i]]
      ELSE body

\* C15: after download_many succeeded, the final artifact of every item
\* holds what download_vsix of that spec alone would have produced, also
\* when two items resolve to the same file name.
C15_BatchItemsIndependent ==
  \A p \in Procs :
    LET r == proc[p]
    IN  r.pc = "returned" =>
          \A i \in 1..Len(r.batch) :
            /\ r.results[i] = ItemFinal(r.batch[i]).v
            /\ FileAt(dir, ino, r.results[i]) =
                 Some(StandaloneArtifact(r.batch[i], r.repack))

====
